---- MODULE Spec2Model ----
(***************************************************************************)
(* A model of two browser-side modules of ex_doc:                          *)
(*   - assets/js/autocomplete/suggestions.js : getSuggestions and helpers  *)
(*   - the tooltip module (hoverStart, hoverEnd, receivePopupMessage, ...) *)
(*                                                                         *)
(* JavaScript strings are sequences of one-character strings.  Values that *)
(* are not strings (undefined, null) and the emphasis markers are          *)
(* sequences holding one multi-character token, so that every value that   *)
(* can stand where a string stands is a sequence and can be compared.      *)
(***************************************************************************)
EXTENDS Integers, Sequences, FiniteSets, TLC

VARIABLES
  sidebarNodes,   \* the global Index read by getSuggestions
  term,           \* argument of the last getSuggestions call
  searched,       \* TRUE iff the last call went past the blank-term return
  found,          \* the tagged findIn results of the last call, per group
  flat,           \* the flattened items of the last call, before sorting
  ranked,         \* the items of the last call after results.sort
  results,        \* the value returned by the last call
  raised,         \* TRUE iff the last call ended in a TypeError
  tooltipsDisabled,        \* localStorage flag 'tooltipsDisabled'
  currentLinkElement,      \* link under the cursor, or NoLink
  currentRequestId,        \* id of the latest request, or NoId
  hoverDelayTimeout,       \* handle of the latest hover-delay timer
  showTimeoutAnimation,    \* handle of the latest animation timer
  hideTimeoutVisibility,   \* handle of the latest hide timer
  timers,                  \* pending timers: records [kind, handle]
  nextHandle,              \* next timer handle setTimeout returns
  nextUid,                 \* number of ids uid() has produced
  iframeSrc,               \* request id of the page the iframe is loading, or NoId
  inflight,                \* request ids of messages posted, not yet received
  tooltipVisible,          \* class tooltip-visible
  tooltipShown,            \* class tooltip-shown
  cursorOver               \* the link the mouse cursor is over, or NoLink

suggestVars == <<sidebarNodes, term, searched, found, flat, ranked, results, raised>>
tooltipVars == <<tooltipsDisabled, currentLinkElement, currentRequestId,
                 hoverDelayTimeout, showTimeoutAnimation, hideTimeoutVisibility,
                 timers, nextHandle, nextUid, iframeSrc, inflight,
                 tooltipVisible, tooltipShown, cursorOver>>
vars == <<suggestVars, tooltipVars>>

----------------------------------------------------------------------------
(* JavaScript values                                                       *)

Undefined == <<"undefined">>
Null == <<"null">>
EmOpen == "<em>"
EmClose == "</em>"
\* The value standing for an uncaught TypeError (reading .input of null).
TypeError == <<"TypeError">>
\* The result of String.prototype.match when nothing matches.
NoMatch == [index |-> 0, input |-> <<>>, m0 |-> <<>>]

\* `${x}` and x + '.': undefined is converted to the text "undefined".
TemplateString(x) ==
  IF x = Undefined THEN <<"u", "n", "d", "e", "f", "i", "n", "e", "d">> ELSE x

\* Truthiness of a string-or-undefined value.
Truthy(x) == x # Undefined /\ x # Null /\ x # <<>>

\* Case folding done by the regular expression flag 'i'.
Lower(c) ==
  CASE c = "A" -> "a"
    [] c = "B" -> "b"
    [] OTHER -> c

IsWhitespace(c) == c = " "

RECURSIVE TrimStart(_)
TrimStart(s) ==
  IF s # <<>> /\ IsWhitespace(Head(s)) THEN TrimStart(Tail(s)) ELSE s

RECURSIVE TrimEnd(_)
TrimEnd(s) ==
  IF s # <<>> /\ IsWhitespace(s[Len(s)]) THEN TrimEnd(SubSeq(s, 1, Len(s) - 1)) ELSE s

\* String.prototype.trim
Trim(s) == TrimEnd(TrimStart(s))

----------------------------------------------------------------------------
(* Regular expressions: helpers.escapeText, new RegExp(src, 'i'), match    *)

IsMeta(c) == c \in {".", "*", "+", "?", "^", "$", "|", "(", ")", "[", "]", "{", "}", "\\"}

\* helpers.escapeText: a backslash is put before every metacharacter.
RECURSIVE escapeText(_)
escapeText(text) ==
  IF text = <<>> THEN <<>>
  ELSE (IF IsMeta(Head(text)) THEN <<"\\", Head(text)>> ELSE <<Head(text)>>)
       \o escapeText(Tail(text))

\* new RegExp(source, 'i'): the pattern as a sequence of atoms.  An escaped
\* character is that character; a bare dot is any character.
RECURSIVE RegExp(_)
RegExp(source) ==
  IF source = <<>> THEN <<>>
  ELSE IF Head(source) = "\\" /\ Len(source) >= 2
       THEN <<[any |-> FALSE, ch |-> source[2]]>> \o RegExp(SubSeq(source, 3, Len(source)))
       ELSE <<[any |-> Head(source) = ".", ch |-> Head(source)]>> \o RegExp(Tail(source))

AtomMatches(atom, c) == atom.any \/ Lower(atom.ch) = Lower(c)

MatchesAt(matcher, s, i) ==
  /\ i + Len(matcher) - 1 <= Len(s)
  /\ \A k \in 1..Len(matcher) : AtomMatches(matcher[k], s[i + k - 1])

\* String.prototype.match with a non-global RegExp: the leftmost match.
StrMatch(s, matcher) ==
  LET starts == {i \in 1..(Len(s) + 1) : MatchesAt(matcher, s, i)}
  IN  IF starts = {} THEN NoMatch
      ELSE LET i == CHOOSE j \in starts : \A k \in starts : j <= k
           IN  [index |-> i, input |-> s, m0 |-> SubSeq(s, i, i + Len(matcher) - 1)]

\* x && x.match(matcher)
GuardedMatch(x, matcher) == IF Truthy(x) THEN StrMatch(x, matcher) ELSE NoMatch

\* The replacement patterns of String.prototype.replace: $$ is a dollar
\* sign, $& the matched text, $` the text before it and $' the text after
\* it.  A string pattern has no groups, so $1 and the like stand as written.
RECURSIVE ExpandReplacement(_, _, _, _)
ExpandReplacement(replacement, matched, before, after) ==
  IF replacement = <<>> THEN <<>>
  ELSE IF Head(replacement) = "$" /\ Len(replacement) >= 2
            /\ replacement[2] \in {"$", "&", "`", "'"}
       THEN (CASE replacement[2] = "$" -> <<"$">>
               [] replacement[2] = "&" -> matched
               [] replacement[2] = "`" -> before
               [] replacement[2] = "'" -> after)
            \o ExpandReplacement(SubSeq(replacement, 3, Len(replacement)),
                                 matched, before, after)
       ELSE <<Head(replacement)>>
            \o ExpandReplacement(Tail(replacement), matched, before, after)

\* String.prototype.replace(pattern, replacement) with a string pattern:
\* the first exact occurrence of the pattern is replaced.
Replace(s, pattern, replacement) ==
  LET n == Len(pattern)
      starts == {i \in 1..(Len(s) - n + 1) : SubSeq(s, i, i + n - 1) = pattern}
  IN  IF starts = {} THEN s
      ELSE LET i == CHOOSE j \in starts : \A k \in starts : j <= k
           IN  SubSeq(s, 1, i - 1)
               \o ExpandReplacement(replacement, pattern, SubSeq(s, 1, i - 1),
                                    SubSeq(s, i + n, Len(s)))
               \o SubSeq(s, i + n, Len(s))

\* highlight(match): match.input of a null match is a TypeError.
highlight(match) ==
  IF match = NoMatch THEN TypeError
  ELSE Replace(match.input, match.m0, <<EmOpen>> \o match.m0 \o <<EmClose>>)

\* term.split('.').shift(): the text before the first dot.
RECURSIVE FirstSegment(_)
FirstSegment(s) ==
  IF s = <<>> \/ Head(s) = "." THEN <<>> ELSE <<Head(s)>> \o FirstSegment(Tail(s))

\* term.split('.').pop(): the text after the last dot.
RECURSIVE LastSegment(_)
LastSegment(s) ==
  IF \A i \in 1..Len(s) : s[i] # "." THEN s ELSE LastSegment(Tail(s))

----------------------------------------------------------------------------
(* Objects.  A copied or aliased ChildEntry carries `ref`: Fresh for an    *)
(* object of its own, or the place in the Index of the object it is.       *)

Fresh == <<>>

\* The element itself instead of a copy of it.
AliasElement(element, place) ==
  [id |-> element.id, anchor |-> element.anchor, match |-> element.match,
   label |-> element.label, ref |-> place]

\* JSON.parse(JSON.stringify(element)): a new object with the same fields.
JSONCopy(element, place) ==
  [id |-> element.id, anchor |-> element.anchor, match |-> element.match,
   label |-> element.label, ref |-> Fresh]

Constructor == <<"c", "o", "n", "s", "t", "r", "u", "c", "t", "o", "r">>

\* Names every object literal answers to through Object.prototype.
ObjectPrototypeKeys ==
  {Constructor,
   <<"t", "o", "S", "t", "r", "i", "n", "g">>,
   <<"v", "a", "l", "u", "e", "O", "f">>,
   <<"_", "_", "p", "r", "o", "t", "o", "_", "_">>}

\* acc[id] is truthy: an entry was stored under this key, or the key is
\* inherited by the object literal the fold starts from.
HasKey(acc, id) ==
  \/ \E i \in 1..Len(acc) : acc[i].id = id
  \/ id \in ObjectPrototypeKeys

\* findNested(elements, parentId, matcher, term, acc), from element i on.
\* `term` is reassigned inside the fold and the new value is seen by the
\* elements that follow.  acc is the mapping by child id, in insertion order.
RECURSIVE findNestedFrom(_, _, _, _, _, _, _)
findNestedFrom(elements, i, parentId, matcher, trm, acc, place) ==
  IF i > Len(elements) THEN acc
  ELSE
    LET element == elements[i] IN
    IF HasKey(acc, element.id)
    THEN findNestedFrom(elements, i + 1, parentId, matcher, trm, acc, place)
    ELSE
      LET fullTitle == TemplateString(parentId) \o <<".">> \o element.id
          fullTitleMatch ==
            /\ StrMatch(TemplateString(parentId) \o <<".">>, matcher) = NoMatch
            /\ StrMatch(fullTitle, matcher) # NoMatch
          match == GuardedMatch(element.id, matcher)
          result == JSONCopy(element, place \o <<i>>)
          qualified == match = NoMatch /\ fullTitleMatch
          newTerm == IF qualified THEN LastSegment(trm) ELSE trm
          matcherWithoutParent == RegExp(escapeText(newTerm))
          matchWithoutParent == GuardedMatch(element.id, matcherWithoutParent)
          newMatch ==
            IF match # NoMatch THEN highlight(match)
            ELSE IF fullTitleMatch THEN highlight(matchWithoutParent)
            ELSE element.id
      IN  findNestedFrom(elements, i + 1, parentId, matcher, newTerm,
                         Append(acc, [result EXCEPT !.match = newMatch]), place)

findNested(elements, parentId, matcher, trm, acc, place) ==
  findNestedFrom(elements, 1, parentId, matcher, trm, acc, place)

\* a.id.localeCompare(b.id) < 0 for the characters of the model: shorter
\* prefixes first, then "a" < "A" < "b" < "B", punctuation before letters.
CharRank(c) ==
  CASE c = " " -> 0
    [] c = "." -> 1
    [] c = "$" -> 2
    [] c = "a" -> 3
    [] c = "A" -> 4
    [] c = "b" -> 5
    [] c = "B" -> 6
    [] OTHER -> 7

RECURSIVE LocaleLess(_, _)
LocaleLess(x, y) ==
  IF y = <<>> THEN FALSE
  ELSE IF x = <<>> THEN TRUE
  ELSE IF CharRank(Head(x)) # CharRank(Head(y)) THEN CharRank(Head(x)) < CharRank(Head(y))
  ELSE LocaleLess(Tail(x), Tail(y))

\* Insert item into the sorted sequence s, after every element not greater.
RECURSIVE InsertById(_, _)
InsertById(s, item) ==
  IF s = <<>> THEN <<item>>
  ELSE IF LocaleLess(item.id, Head(s).id) THEN <<item>> \o s
  ELSE <<Head(s)>> \o InsertById(Tail(s), item)

\* Object.values(m).sort((a, b) => a.id.localeCompare(b.id)), a stable sort.
RECURSIVE SortById(_)
SortById(m) ==
  IF m = <<>> THEN <<>>
  ELSE InsertById(SortById(SubSeq(m, 1, Len(m) - 1)), m[Len(m)])

\* result[key] for the keys a result can hold.
GetKey(result, key) ==
  CASE key = "functions" -> result.functions
    [] key = "callbacks" -> result.callbacks
    [] key = "types" -> result.types
    [] OTHER -> <<>>

\* The body of the loop over element.nodeGroups in findIn, given the
\* matches findNested returned for the group `key`: the new loop state.
storeMatches(st, key, matches) ==
  IF Len(matches) > 0
  THEN [hasMatch |-> TRUE,
        result |->
          IF key = "types" THEN [st.result EXCEPT !.types = matches]
          ELSE IF key = "callbacks" THEN [st.result EXCEPT !.callbacks = matches]
          ELSE [st.result EXCEPT !.functions = matches]]
  ELSE st

\* The loop over element.nodeGroups in findIn, from group k on.  The state
\* of the loop is the result being built and hasMatch.
RECURSIVE nodeGroupsFrom(_, _, _, _, _, _)
nodeGroupsFrom(element, k, matcher, trm, st, place) ==
  IF k > Len(element.nodeGroups) THEN st
  ELSE
    nodeGroupsFrom(element, k + 1, matcher, trm,
                   storeMatches(st, element.nodeGroups[k].key,
                                findNested(element.nodeGroups[k].nodes, element.title,
                                           matcher, trm,
                                           GetKey(st.result, element.nodeGroups[k].key),
                                           place \o <<k>>)),
                   place)

\* The body of the map callback of findIn for one element: the result and
\* whether it is kept by the filter that follows.
findInElement(element, matcher, trm, place) ==
  LET title == element.title
      titleMatch == GuardedMatch(title, matcher)
      result0 ==
        [id |-> element.id,
         match |-> IF titleMatch # NoMatch THEN highlight(titleMatch) ELSE element.title,
         functions |-> <<>>, callbacks |-> <<>>, types |-> <<>>,
         label |-> Undefined, category |-> Undefined]
      st == nodeGroupsFrom(element, 1, matcher, trm,
                           [result |-> result0, hasMatch |-> titleMatch # NoMatch], place)
  IN  [kept |-> st.hasMatch,
       result |-> [st.result EXCEPT !.functions = SortById(@),
                                    !.callbacks = SortById(@),
                                    !.types = SortById(@)]]

RECURSIVE findInFrom(_, _, _, _, _)
findInFrom(elements, e, matcher, trm, group) ==
  IF e > Len(elements) THEN <<>>
  ELSE
    LET r == findInElement(elements[e], matcher, trm, <<group, e>>)
        rest == findInFrom(elements, e + 1, matcher, trm, group)
    IN  IF r.kept THEN <<r.result>> \o rest ELSE rest

\* findIn(elements, term); group numbers the Index group searched.
findIn(elements, trm, group) ==
  findInFrom(elements, 1, RegExp(escapeText(trm)), trm, group)

----------------------------------------------------------------------------
(* Flattening and ranking                                                  *)

resultsCount == 5

\* sortingPriority[category] || -1: a priority of 0 is falsy and gives -1.
sortingPriority(category) ==
  CASE category = <<"Module">> -> 3
    [] category = <<"Child">> -> 2
    [] category = <<"Exception">> -> 1
    [] category = <<"Mix Task">> -> 0
    [] OTHER -> 0

Weight(item) ==
  IF sortingPriority(item.category) = 0 THEN -1 ELSE sortingPriority(item.category)

\* A comparator that ranks the lowest priority first.
CompareAscending(item1, item2) == Weight(item1) - Weight(item2)

\* The comparator handed to results.sort.
Compare(item1, item2) == Weight(item2) - Weight(item1)

isMatch(item) == item.match # item.id

RECURSIVE addLabel(_, _)
addLabel(items, labelName) ==
  IF items = <<>> THEN <<>>
  ELSE <<[Head(items) EXCEPT !.label = labelName]>> \o addLabel(Tail(items), labelName)

RECURSIVE addCategory(_, _)
addCategory(modules, categoryName) ==
  IF modules = <<>> THEN <<>>
  ELSE <<[Head(modules) EXCEPT !.category = categoryName]>>
       \o addCategory(Tail(modules), categoryName)

serialize(item, moduleId, isChild) ==
  LET anchor == IF isChild THEN item.anchor ELSE <<>>
      category == IF isChild THEN <<"Child">> ELSE item.category
      description == IF isChild THEN moduleId ELSE Null
      label == IF Truthy(item.label) THEN item.label ELSE Null
      link == IF Truthy(anchor)
              THEN TemplateString(moduleId) \o <<".html#">> \o TemplateString(anchor)
              ELSE TemplateString(moduleId) \o <<".html">>
  IN  [link |-> link, title |-> item.match, description |-> description,
       label |-> label, category |-> category]

RECURSIVE serializeChildren(_, _)
serializeChildren(items, moduleId) ==
  IF items = <<>> THEN <<>>
  ELSE (IF isMatch(Head(items)) THEN <<serialize(Head(items), moduleId, TRUE)>> ELSE <<>>)
       \o serializeChildren(Tail(items), moduleId)

\* The objects of one module result once parseModuleResults has run:
\* addLabel writes the label into the callbacks and types it is given.
Labelled(moduleResults) ==
  [moduleResults EXCEPT !.types = addLabel(@, <<"type">>),
                        !.callbacks = addLabel(@, <<"callback">>)]

parseModuleResults(moduleResults) ==
  LET m == Labelled(moduleResults)
      children == serializeChildren(m.functions \o m.callbacks \o m.types, m.id)
  IN  IF isMatch(m) THEN <<serialize(m, m.id, FALSE)>> \o children ELSE children

\* results.reduce((acc, moduleResults) => acc.concat(parseModuleResults(...)), [])
RECURSIVE Flatten(_)
Flatten(moduleResultsList) ==
  IF moduleResultsList = <<>> THEN <<>>
  ELSE parseModuleResults(Head(moduleResultsList)) \o Flatten(Tail(moduleResultsList))

\* Array.prototype.sort with the comparator, as a stable insertion sort:
\* an item goes before the first element that must come after it.
RECURSIVE InsertRanked(_, _)
InsertRanked(s, item) ==
  IF s = <<>> THEN <<item>>
  ELSE IF Compare(Head(s), item) > 0 THEN <<item>> \o s
  ELSE <<Head(s)>> \o InsertRanked(Tail(s), item)

RECURSIVE Sort(_)
Sort(items) ==
  IF items = <<>> THEN <<>>
  ELSE InsertRanked(Sort(SubSeq(items, 1, Len(items) - 1)), items[Len(items)])

\* A slice that lets one item too many through.
SliceOneMore(items) ==
  SubSeq(items, 1, IF Len(items) < resultsCount + 1 THEN Len(items) ELSE resultsCount + 1)

\* results.slice(0, resultsCount)
Slice(items) ==
  SubSeq(items, 1, IF Len(items) < resultsCount THEN Len(items) ELSE resultsCount)

RECURSIVE MapLabelled(_)
MapLabelled(moduleResultsList) ==
  IF moduleResultsList = <<>> THEN <<>>
  ELSE <<Labelled(Head(moduleResultsList))>> \o MapLabelled(Tail(moduleResultsList))

\* Does the search end in a TypeError: some highlight was given a null match.
RECURSIVE AnyThrown(_)
AnyThrown(moduleResultsList) ==
  IF moduleResultsList = <<>> THEN FALSE
  ELSE LET m == Head(moduleResultsList)
           kids == m.functions \o m.callbacks \o m.types
       IN  \/ m.match = TypeError
           \/ \E i \in 1..Len(kids) : kids[i].match = TypeError
           \/ AnyThrown(Tail(moduleResultsList))

\* A blank-term test that does not trim.
IsEmptyTerm(trm) == Len(trm) = 0

\* The blank-term test of getSuggestions.
IsBlank(trm) == Len(Trim(trm)) = 0

----------------------------------------------------------------------------
(* The Index: entries and children the program is run on                   *)

MaxModules == 2

ChildEntry(id, anchor) ==
  [id |-> id, anchor |-> anchor, match |-> Undefined, label |-> Undefined]

Entry(id, title, nodeGroups) == [id |-> id, title |-> title, nodeGroups |-> nodeGroups]

NodeGroup(key, nodes) == [key |-> key, nodes |-> nodes]

\* id and title "a" with two functions, not in id order.
ModFoo ==
  Entry(<<"a">>, <<"a">>,
        <<NodeGroup("functions", <<ChildEntry(<<"b", "a">>, <<"ba/1">>),
                                   ChildEntry(<<"b">>, <<"b/2">>)>>)>>)

\* id and title "ab" with children in all three groups; among the types
\* one id of dollar signs and one named like a property of Object.prototype.
ModRich ==
  Entry(<<"a", "b">>, <<"a", "b">>,
        <<NodeGroup("functions", <<ChildEntry(<<"b", "b">>, <<"bb/0">>),
                                   ChildEntry(<<"a", "b">>, <<"ab/1">>)>>),
          NodeGroup("callbacks", <<ChildEntry(<<"b", "a">>, <<"c:ba/1">>),
                                   ChildEntry(<<"a", "b", "b">>, <<"c:abb/1">>)>>),
          NodeGroup("types", <<ChildEntry(<<"b">>, <<"t:b/0">>),
                               ChildEntry(<<"$", "$">>, <<"t:$$/0">>),
                               ChildEntry(Constructor, <<"t:constructor/0">>)>>)>>)

\* A title that differs from the id, and a child without an anchor.
ModAlt ==
  Entry(<<"b">>, <<"B", "a">>,
        <<NodeGroup("functions", <<ChildEntry(<<"a">>, Undefined)>>)>>)

\* No title.
ModNoTitle ==
  Entry(<<"b", "a">>, Undefined,
        <<NodeGroup("types", <<ChildEntry(<<"a">>, <<"t:a/0">>)>>)>>)

ModulePool == {ModFoo, ModRich, ModAlt, ModNoTitle}

ExcPlain == Entry(<<"a", "B">>, <<"a", "B">>, <<>>)

ExcKids ==
  Entry(<<"b">>, <<"b">>,
        <<NodeGroup("callbacks", <<ChildEntry(<<"a", "b">>, <<"c:ab/1">>)>>)>>)

ExceptionGroups == {<<>>, <<ExcKids>>, <<ExcKids, ExcPlain>>}

\* A task id holds a dot.
TaskDotted == Entry(<<"b", ".", "a">>, <<"b", ".", "a">>, <<>>)

\* A task with a group of functions and a group under a custom key.
TaskGuards ==
  Entry(<<"a">>, <<"a">>,
        <<NodeGroup("functions", <<ChildEntry(<<"b", "b">>, <<"bb/0">>)>>),
          NodeGroup("guards", <<ChildEntry(<<"a", "b">>, <<"ab/1">>)>>)>>)

TaskGroups == {<<>>, <<TaskDotted>>, <<TaskDotted, TaskGuards>>}

\* Sequences of at most n entries of the pool, with distinct ids.
SeqsUpTo(pool, n) ==
  UNION {{s \in [1..k -> pool] : \A i, j \in 1..k : i < j => s[i].id # s[j].id} :
         k \in 0..n}

Indexes ==
  {[modules |-> m, exceptions |-> x, tasks |-> t] :
     m \in SeqsUpTo(ModulePool, MaxModules), x \in ExceptionGroups, t \in TaskGroups}

Terms ==
  {<<>>, <<" ", " ">>, <<" ", "a">>,
   <<"a">>, <<"b">>, <<"B">>, <<".">>,
   <<"a", "b">>, <<"b", "a">>, <<"b", "b">>,
   <<"a", ".">>,
   <<"a", ".", "b">>, <<"b", ".", "a">>,
   <<"a", "b", ".", "b">>, <<"a", ".", "b", "a">>, <<"a", "b", ".", "a", "b">>,
   <<"a", "b", "b">>, <<"b", "b", "b">>,
   <<"$", "$">>, <<"a", "b", ".", "$", "$">>, Constructor}

NoTerm == <<"none">>

----------------------------------------------------------------------------
(* The effect of the writes of a call on the Index                         *)

AllChildren(moduleResultsList) ==
  UNION {LET m == moduleResultsList[i]
             kids == m.functions \o m.callbacks \o m.types
         IN  {kids[j] : j \in 1..Len(kids)} : i \in 1..Len(moduleResultsList)}

\* The Index after the fields written through aliases are stored in it.
WriteBack(index, fnd) ==
  LET writes == {c \in AllChildren(fnd.modules \o fnd.exceptions \o fnd.tasks) :
                   c.ref # Fresh}
      ChildAt(place, old) ==
        IF \E w \in writes : w.ref = place
        THEN LET w == CHOOSE w \in writes : w.ref = place
             IN  [old EXCEPT !.match = w.match, !.label = w.label]
        ELSE old
      NodesAt(place, nodes) ==
        [n \in 1..Len(nodes) |-> ChildAt(place \o <<n>>, nodes[n])]
      GroupsAt(place, groups) ==
        [k \in 1..Len(groups) |->
           [groups[k] EXCEPT !.nodes = NodesAt(place \o <<k>>, groups[k].nodes)]]
      EntriesAt(g, entries) ==
        [e \in 1..Len(entries) |->
           [entries[e] EXCEPT !.nodeGroups = GroupsAt(<<g, e>>, entries[e].nodeGroups)]]
  IN  IF writes = {} THEN index
      ELSE [modules |-> EntriesAt(1, index.modules),
            exceptions |-> EntriesAt(2, index.exceptions),
            tasks |-> EntriesAt(3, index.tasks)]

----------------------------------------------------------------------------
(* getSuggestions                                                          *)

NoFound == [modules |-> <<>>, exceptions |-> <<>>, tasks |-> <<>>]

getSuggestions(t) ==
  /\ term' = t
  /\ \/ /\ IsBlank(t)
        /\ searched' = FALSE
        /\ found' = NoFound
        /\ flat' = <<>>
        /\ ranked' = <<>>
        /\ results' = <<>>
        /\ raised' = FALSE
        /\ UNCHANGED sidebarNodes
     \/ /\ ~IsBlank(t)
        /\ searched' = TRUE
        /\ LET nodes == sidebarNodes
               modules == addCategory(findIn(nodes.modules, t, 1), <<"Module">>)
               exceptions == addCategory(findIn(nodes.exceptions, t, 2), <<"Exception">>)
               tasks == addCategory(findIn(nodes.tasks, t, 3), <<"Mix Task">>)
           IN  found' = [modules |-> MapLabelled(modules),
                         exceptions |-> MapLabelled(exceptions),
                         tasks |-> MapLabelled(tasks)]
        /\ raised' = AnyThrown(found'.modules \o found'.exceptions \o found'.tasks)
        /\ flat' = IF raised' THEN <<>>
                   ELSE Flatten(found'.modules \o found'.exceptions \o found'.tasks)
        /\ ranked' = Sort(flat')
        /\ results' = Slice(ranked')
        /\ sidebarNodes' = WriteBack(sidebarNodes, found')
  /\ UNCHANGED tooltipVars

NoLink == 0
NoId == 0
NoTimer == 0

TooltipInit ==
  /\ tooltipsDisabled = FALSE
  /\ currentLinkElement = NoLink
  /\ currentRequestId = NoId
  /\ hoverDelayTimeout = NoTimer
  /\ showTimeoutAnimation = NoTimer
  /\ hideTimeoutVisibility = NoTimer
  /\ timers = {}
  /\ nextHandle = 1
  /\ nextUid = 0
  /\ iframeSrc = NoId
  /\ inflight = {}
  /\ tooltipVisible = FALSE
  /\ tooltipShown = FALSE
  /\ cursorOver = NoLink

SuggestInit ==
  /\ term = NoTerm
  /\ searched = FALSE
  /\ found = NoFound
  /\ flat = <<>>
  /\ ranked = <<>>
  /\ results = <<>>
  /\ raised = FALSE

Init ==
  /\ sidebarNodes \in Indexes
  /\ SuggestInit
  /\ TooltipInit

Next == \E t \in Terms : getSuggestions(t)

Spec == Init /\ [][Next]_vars

----------------------------------------------------------------------------
(* Vocabulary of the properties                                            *)

\* The items of a sequence, as a set of positions.
Pos(s) == 1..Len(s)

\* t occurs in s, letter case ignored.
CiContains(s, t) ==
  \E i \in 1..(Len(s) - Len(t) + 1) :
    \A k \in 1..Len(t) : Lower(s[i + k - 1]) = Lower(t[k])

NoDot(s) == \A i \in Pos(s) : s[i] # "."

\* A display string with a span wrapped in the emphasis marker.
Highlighted(s) == \E i \in Pos(s) : s[i] = EmOpen

IsMarker(x) == x = EmOpen \/ x = EmClose

\* A display string without its emphasis markers.
StripEm(s) == SelectSeq(s, LAMBDA x : ~IsMarker(x))

\* The entries of the Index with the category of their group.
IndexEntries ==
  {[entry |-> sidebarNodes.modules[i], category |-> <<"Module">>] :
     i \in Pos(sidebarNodes.modules)}
  \cup {[entry |-> sidebarNodes.exceptions[i], category |-> <<"Exception">>] :
          i \in Pos(sidebarNodes.exceptions)}
  \cup {[entry |-> sidebarNodes.tasks[i], category |-> <<"Mix Task">>] :
          i \in Pos(sidebarNodes.tasks)}

\* The children of an entry with the label of their group.
ChildrenOf(entry) ==
  UNION {{[child |-> entry.nodeGroups[k].nodes[n],
           label |-> CASE entry.nodeGroups[k].key = "types" -> <<"type">>
                       [] entry.nodeGroups[k].key = "callbacks" -> <<"callback">>
                       [] OTHER -> Null] :
            n \in Pos(entry.nodeGroups[k].nodes)} : k \in Pos(entry.nodeGroups)}

\* The match results of the last call, all groups.
FoundEntries == found.modules \o found.exceptions \o found.tasks

FoundChildren(m) == m.functions \o m.callbacks \o m.types

\* A call that searched the Index and returned.
Returned == searched /\ ~raised

----------------------------------------------------------------------------
(* C2: at most five items, the first five of the ranked list               *)

\* C2: getSuggestions returns at most 5 items, and they are exactly the
\* first 5 (or fewer) items of the ranked full result list.
C2_AtMostFiveFirstOfRanked ==
  /\ Len(results) <= 5
  /\ Len(results) = (IF Len(ranked) < 5 THEN Len(ranked) ELSE 5)
  /\ \A i \in Pos(results) : results[i] = ranked[i]

\* More than five items matched and five were returned.
C2_Witness == Len(ranked) > 5 /\ Len(results) = 5

----------------------------------------------------------------------------
(* C3: ranking by category priority, ties in flattened order               *)

\* The priority order the claim states.
ClaimedRank(category) ==
  CASE category = <<"Module">> -> 4
    [] category = <<"Child">> -> 3
    [] category = <<"Exception">> -> 2
    [] category = <<"Mix Task">> -> 1
    [] OTHER -> 0

Categories == {<<"Module">>, <<"Child">>, <<"Exception">>, <<"Mix Task">>}

OfCategory(items, c) == SelectSeq(items, LAMBDA x : x.category = c)

CategoriesOf(items) == [i \in Pos(items) |-> items[i].category]

TitlesOf(items) == [i \in Pos(items) |-> items[i].title]

\* The titles one match result contributes to the flattened list: the
\* entry first, then its functions, callbacks and types.
RECURSIVE ExpectedTitles(_)
ExpectedTitles(ms) ==
  IF ms = <<>> THEN <<>>
  ELSE LET m == Head(ms)
           kids == SelectSeq(m.functions \o m.callbacks \o m.types,
                             LAMBDA c : c.match # c.id)
       IN  (IF m.match # m.id THEN <<m.match>> ELSE <<>>)
           \o [i \in Pos(kids) |-> kids[i].match]
           \o ExpectedTitles(Tail(ms))

\* C3: the output is ordered by priority Module > Child > Exception >
\* Mix Task, items of one category keep the order of the flattened list
\* (modules, exceptions, tasks; per entry the entry, functions, callbacks,
\* types), and one match per category comes out as Module, Child,
\* Exception, Mix Task.
C3_RankedByCategoryStable ==
  Returned =>
    /\ \A i, j \in Pos(ranked) :
         i < j => ClaimedRank(ranked[i].category) >= ClaimedRank(ranked[j].category)
    /\ \A i, j \in Pos(results) :
         i < j => ClaimedRank(results[i].category) >= ClaimedRank(results[j].category)
    /\ \A c \in Categories : OfCategory(ranked, c) = OfCategory(flat, c)
    /\ \A i \in Pos(flat) : flat[i].category \in Categories
    /\ TitlesOf(flat) = ExpectedTitles(FoundEntries)
    /\ (\A c \in Categories : Len(OfCategory(flat, c)) = 1) =>
         CategoriesOf(results) =
           <<(<<"Module">>), (<<"Child">>), (<<"Exception">>), (<<"Mix Task">>)>>

\* One match in every category, in a flattened order the sort had to change.
C3_Witness ==
  /\ Returned
  /\ \A c \in Categories : Len(OfCategory(flat, c)) = 1
  /\ CategoriesOf(flat) # CategoriesOf(ranked)

\* Several items per category, moved by the sort.
C3_WitnessTies ==
  /\ Returned
  /\ Len(OfCategory(flat, <<"Child">>)) >= 2
  /\ Len(OfCategory(flat, <<"Module">>)) >= 2
  /\ CategoriesOf(flat) # CategoriesOf(ranked)

----------------------------------------------------------------------------
(* C4: qualified and bare queries resolve to the same child                *)

OnlySpaces(s) == \A i \in Pos(s) : s[i] = " "

\* The Child item of child c of entry e, the whole of c emphasised.
ChildItem(e, c, label) ==
  [link |-> IF c.anchor = Undefined THEN e.id \o <<".html">>
            ELSE e.id \o <<".html#">> \o c.anchor,
   title |-> <<EmOpen>> \o c.id \o <<EmClose>>,
   description |-> e.id,
   label |-> label,
   category |-> <<"Child">>]

\* The entry itself is among the items.
EntryEmitted(items, ec) ==
  \E i \in Pos(items) :
    /\ items[i].description = Null
    /\ items[i].category = ec.category
    /\ items[i].link = ec.entry.id \o <<".html">>
    /\ StripEm(items[i].title) = ec.entry.id

QualifiedTerm(e, c) == e.id \o <<".">> \o c.id

\* The entries and children the claim is about: id and title p, child id c,
\* no dot in either.
PlainPairs ==
  {[ec |-> ec, cc |-> cc] : ec \in IndexEntries, cc \in UNION {ChildrenOf(x.entry) : x \in IndexEntries}}

C4_Cases ==
  {pc \in PlainPairs :
     /\ pc.cc \in ChildrenOf(pc.ec.entry)
     /\ pc.ec.entry.title = pc.ec.entry.id
     /\ NoDot(pc.ec.entry.id)
     /\ NoDot(pc.cc.child.id)}

\* C4: after getSuggestions("p.c") and after getSuggestions("c") the result
\* holds the Child item of c, and "p.c" does not emit the entry p.  The
\* limit of 5 items is read in the claim's favour: the item counts as held
\* when it is in the ranked list the result is cut from.
C4_QualifiedAndBareResolve ==
  \A pc \in C4_Cases :
    LET e == pc.ec.entry
        c == pc.cc.child
        item == ChildItem(e, c, pc.cc.label)
    IN  /\ (Returned /\ (term = QualifiedTerm(e, c) \/ term = c.id)) =>
             \E i \in Pos(ranked) : ranked[i] = item
        /\ (Returned /\ term = QualifiedTerm(e, c)) => ~EntryEmitted(results, pc.ec)

----------------------------------------------------------------------------
(* C6: the Index is not written, and a repeated call returns the same      *)

\* C6: no getSuggestions call changes an Entry or ChildEntry of the Index,
\* and a call with the term of the call before it returns what that call
\* returned.
C6_IndexNeverMutated ==
  [][/\ sidebarNodes' = sidebarNodes
     /\ term' = term => results' = results]_vars

\* A call annotated children (match and label) that came from the Index.
C6_Witness ==
  /\ Returned
  /\ \E k \in Pos(FoundEntries) :
       \E n \in Pos(FoundChildren(FoundEntries[k])) :
         LET c == FoundChildren(FoundEntries[k])[n]
         IN  c.label = <<"type">> /\ Highlighted(c.match)
  /\ \A ec \in IndexEntries :
       \A cc \in ChildrenOf(ec.entry) :
         cc.child.match = Undefined /\ cc.child.label = Undefined

----------------------------------------------------------------------------
(* C7: blank terms                                                         *)

\* C7: a call with the empty string or with whitespace only returns an
\* empty sequence, raises nothing and does not search the Index.
C7_BlankTermReturnsEmpty ==
  (term # NoTerm /\ OnlySpaces(term)) =>
    (results = <<>> /\ ~raised /\ ~searched /\ found = NoFound)

\* A whitespace-only call on an Index that has entries.
C7_Witness ==
  /\ term = <<" ", " ">>
  /\ sidebarNodes.modules # <<>>
  /\ results = <<>>

----------------------------------------------------------------------------
(* C9: highlight is never given a null match                               *)

\* The qualified-name branch of findNested is taken for child c of an
\* entry with title p under term t.
TakesQualifiedBranch(p, c, t) ==
  /\ ~CiContains(c, t)
  /\ ~CiContains(TemplateString(p) \o <<".">>, t)
  /\ CiContains(TemplateString(p) \o <<".">> \o c, t)

\* C9: no call raises, and whenever the qualified-name branch is taken the
\* reduced term matches the child id, for every child of the entry.
C9_NeverRaises ==
  /\ ~raised
  /\ \A k \in Pos(FoundEntries) :
       \A n \in Pos(FoundChildren(FoundEntries[k])) :
         FoundChildren(FoundEntries[k])[n].match # TypeError
  /\ searched =>
       \A ec \in IndexEntries :
         \A cc \in ChildrenOf(ec.entry) :
           TakesQualifiedBranch(ec.entry.title, cc.child.id, term) =>
             CiContains(cc.child.id, LastSegment(term))

\* Two children of one entry took the qualified-name branch in one call.
C9_Witness ==
  /\ Returned
  /\ \E ec \in IndexEntries :
       \E c1, c2 \in ChildrenOf(ec.entry) :
         /\ c1.child.id # c2.child.id
         /\ TakesQualifiedBranch(ec.entry.title, c1.child.id, term)
         /\ TakesQualifiedBranch(ec.entry.title, c2.child.id, term)
         /\ \E i, j \in Pos(results) :
              /\ StripEm(results[i].title) = c1.child.id
              /\ StripEm(results[j].title) = c2.child.id
              /\ Highlighted(results[i].title)
              /\ Highlighted(results[j].title)

----------------------------------------------------------------------------
(* C1, C5, C8: what is retained and what is emitted                        *)

\* The term matches no title, no child id and no qualified name "p.c".
NothingMatches ==
  \A ec \in IndexEntries :
    /\ ec.entry.title # Undefined => ~CiContains(ec.entry.title, term)
    /\ \A cc \in ChildrenOf(ec.entry) :
         /\ ~CiContains(cc.child.id, term)
         /\ ~CiContains(TemplateString(ec.entry.title) \o <<".">> \o cc.child.id, term)

\* C1: every item returned was matched and highlighted, and a term that
\* matches nothing in the Index returns the empty sequence.
C1_OnlyHighlightedEmitted ==
  /\ \A i \in Pos(results) : Highlighted(results[i].title)
  /\ (Returned /\ NothingMatches) => results = <<>>

\* The item of the entry itself, whatever its title.
IsItemOf(item, ec) ==
  /\ item.description = Null
  /\ item.category = ec.category
  /\ item.link = ec.entry.id \o <<".html">>

\* C5: an entry without a title is matched by its id: it is emitted with
\* the id highlighted when the id holds the term, and is not emitted when
\* it does not.
C5_NoTitleMatchedById ==
  Returned =>
    \A ec \in {x \in IndexEntries : x.entry.title = Undefined} :
      /\ CiContains(ec.entry.id, term) =>
           \E i \in Pos(ranked) :
             /\ IsItemOf(ranked[i], ec)
             /\ Highlighted(ranked[i].title)
             /\ StripEm(ranked[i].title) = ec.entry.id
      /\ ~CiContains(ec.entry.id, term) =>
           \A i \in Pos(ranked) : ~IsItemOf(ranked[i], ec)

\* C8: findIn keeps an entry only if its title or one of its children
\* matched, and the children attached to a kept entry all matched.
C8_RetainedOnlyIfMatched ==
  \A k \in Pos(FoundEntries) :
    LET m == FoundEntries[k]
        kids == FoundChildren(m)
    IN  /\ \/ Highlighted(m.match)
           \/ \E n \in Pos(kids) : Highlighted(kids[n].match)
        /\ \A n \in Pos(kids) : Highlighted(kids[n].match)

----------------------------------------------------------------------------
(* The tooltip module                                                      *)

MaxHovers == 2
MaxTimers == 5

Links == {1, 2}

\* Link 2 has no href attribute.
HasHref(link) == link = 1

\* setTimeout(callback, delay): the timer is pending under a new handle.
SetTimeout(kind) == timers \cup {[kind |-> kind, handle |-> nextHandle]}

\* clearTimeout(handle) on a set of pending timers.
ClearTimeout(pending, handle) == {t \in pending : t.handle # handle}

\* uid(): an id no earlier call returned.
uid == nextUid + 1

\* A click on the tooltips toggle in the footer.
toggleTooltipsDisabled ==
  /\ tooltipsDisabled' = ~tooltipsDisabled
  /\ UNCHANGED <<currentLinkElement, currentRequestId, hoverDelayTimeout,
                 showTimeoutAnimation, hideTimeoutVisibility, timers, nextHandle,
                 nextUid, iframeSrc, inflight, tooltipVisible, tooltipShown,
                 cursorOver>>
  /\ UNCHANGED suggestVars

\* The cursor enters a link; small says the window is below 768 x 400.
hoverStart(link, small) ==
  /\ cursorOver = NoLink
  /\ nextUid < MaxHovers
  /\ nextHandle <= MaxTimers
  /\ cursorOver' = link
  /\ \/ /\ (tooltipsDisabled \/ small)
        /\ UNCHANGED <<currentLinkElement, currentRequestId, hoverDelayTimeout,
                       timers, nextHandle, nextUid>>
     \/ /\ ~(tooltipsDisabled \/ small)
        /\ currentLinkElement' = link
        /\ currentRequestId' = uid
        /\ nextUid' = nextUid + 1
        /\ hoverDelayTimeout' = nextHandle
        /\ timers' = SetTimeout("hoverDelay")
        /\ nextHandle' = nextHandle + 1
  /\ UNCHANGED <<tooltipsDisabled, showTimeoutAnimation, hideTimeoutVisibility,
                 iframeSrc, inflight, tooltipVisible, tooltipShown>>
  /\ UNCHANGED suggestVars

\* The cursor leaves the link it is over.
hoverEnd ==
  /\ cursorOver # NoLink
  /\ nextHandle <= MaxTimers
  /\ cursorOver' = NoLink
  /\ \/ /\ tooltipsDisabled
        /\ UNCHANGED <<currentLinkElement, hideTimeoutVisibility, timers, nextHandle,
                       tooltipShown>>
     \/ /\ ~tooltipsDisabled
        /\ currentLinkElement' = NoLink
        \* hideTooltip
        /\ tooltipShown' = FALSE
        /\ hideTimeoutVisibility' = nextHandle
        /\ timers' = ClearTimeout(ClearTimeout(timers, showTimeoutAnimation),
                                  hoverDelayTimeout)
                     \cup {[kind |-> "hide", handle |-> nextHandle]}
        /\ nextHandle' = nextHandle + 1
  /\ UNCHANGED <<tooltipsDisabled, currentRequestId, hoverDelayTimeout,
                 showTimeoutAnimation, nextUid, iframeSrc, inflight, tooltipVisible>>
  /\ UNCHANGED suggestVars

\* The callback of the hover-delay timer, with prepareTooltips.
hoverDelayFires(handle) ==
  /\ [kind |-> "hoverDelay", handle |-> handle] \in timers
  /\ timers' = ClearTimeout(timers \ {[kind |-> "hoverDelay", handle |-> handle]},
                            hideTimeoutVisibility)
  /\ tooltipVisible' = FALSE
  /\ tooltipShown' = FALSE
  /\ iframeSrc' = IF currentLinkElement # NoLink /\ HasHref(currentLinkElement)
                  THEN currentRequestId
                  ELSE iframeSrc
  /\ UNCHANGED <<tooltipsDisabled, currentLinkElement, currentRequestId,
                 hoverDelayTimeout, showTimeoutAnimation, hideTimeoutVisibility,
                 nextHandle, nextUid, inflight, cursorOver>>
  /\ UNCHANGED suggestVars

\* The page loaded in the iframe posts its message to the window.
iframePostsMessage ==
  /\ iframeSrc # NoId
  /\ inflight' = inflight \cup {iframeSrc}
  /\ iframeSrc' = NoId
  /\ UNCHANGED <<tooltipsDisabled, currentLinkElement, currentRequestId,
                 hoverDelayTimeout, showTimeoutAnimation, hideTimeoutVisibility,
                 timers, nextHandle, nextUid, tooltipVisible, tooltipShown, cursorOver>>
  /\ UNCHANGED suggestVars

\* The window receives a message; showTooltip runs if it passes the tests.
receivePopupMessage(requestId, ready) ==
  /\ requestId \in inflight
  /\ nextHandle <= MaxTimers
  /\ inflight' = inflight \ {requestId}
  /\ \/ /\ (requestId # currentRequestId \/ ~ready)
        /\ UNCHANGED <<tooltipVisible, showTimeoutAnimation, timers, nextHandle>>
     \/ /\ requestId = currentRequestId
        /\ ready
        \* showTooltip
        /\ tooltipVisible' = TRUE
        /\ showTimeoutAnimation' = nextHandle
        /\ timers' = SetTimeout("animation")
        /\ nextHandle' = nextHandle + 1
  /\ UNCHANGED <<tooltipsDisabled, currentLinkElement, currentRequestId,
                 hoverDelayTimeout, hideTimeoutVisibility, nextUid, iframeSrc,
                 tooltipShown, cursorOver>>
  /\ UNCHANGED suggestVars

\* The callback of the animation timer set by showTooltip.
animationFires(handle) ==
  /\ [kind |-> "animation", handle |-> handle] \in timers
  /\ timers' = timers \ {[kind |-> "animation", handle |-> handle]}
  /\ tooltipShown' = TRUE
  /\ UNCHANGED <<tooltipsDisabled, currentLinkElement, currentRequestId,
                 hoverDelayTimeout, showTimeoutAnimation, hideTimeoutVisibility,
                 nextHandle, nextUid, iframeSrc, inflight, tooltipVisible, cursorOver>>
  /\ UNCHANGED suggestVars

\* The callback of the timer set by hideTooltip.
hideFires(handle) ==
  /\ [kind |-> "hide", handle |-> handle] \in timers
  /\ timers' = timers \ {[kind |-> "hide", handle |-> handle]}
  /\ tooltipVisible' = FALSE
  /\ UNCHANGED <<tooltipsDisabled, currentLinkElement, currentRequestId,
                 hoverDelayTimeout, showTimeoutAnimation, hideTimeoutVisibility,
                 nextHandle, nextUid, iframeSrc, inflight, tooltipShown, cursorOver>>
  /\ UNCHANGED suggestVars

Handles == 1..MaxTimers

TooltipNext ==
  \/ toggleTooltipsDisabled
  \/ \E link \in Links, small \in BOOLEAN : hoverStart(link, small)
  \/ hoverEnd
  \/ \E h \in Handles : hoverDelayFires(h)
  \/ iframePostsMessage
  \/ \E id \in 1..MaxHovers, ready \in BOOLEAN : receivePopupMessage(id, ready)
  \/ \E h \in Handles : animationFires(h)
  \/ \E h \in Handles : hideFires(h)

\* The page after initialize(), with an Index that has no entries.
InitTooltip ==
  /\ sidebarNodes = NoFound
  /\ SuggestInit
  /\ TooltipInit

TooltipSpec == InitTooltip /\ [][TooltipNext]_vars

----------------------------------------------------------------------------
(* C10: the request id and the races of hover, timers and messages         *)

\* C10: a message makes the tooltip visible only while the cursor is still
\* over the link of the latest hoverStart; once hoverEnd has run and no
\* hoverStart followed, nothing makes the tooltip visible.
C10_NoTooltipAfterLeave ==
  [][(~tooltipVisible /\ tooltipVisible') =>
       (currentLinkElement # NoLink /\ cursorOver # NoLink)]_vars

====
